---- MODULE Spec2Model ----
(***************************************************************************)
(* Clementine's network core (src/core/network.cpp):                       *)
(*   ThreadSafeNetworkDiskCache  one static store behind one static mutex  *)
(*   NetworkAccessManager        rewrites every outgoing request           *)
(*   NetworkTimeouts             one periodic Qt timer per watched reply    *)
(*   RedirectFollower            re-issues a request on a redirect reply    *)
(* The first lives on any thread; the other three on the event loop.       *)
(***************************************************************************)
EXTENDS Integers, Sequences, FiniteSets, TLC

\* ------------------------------------------------------------------ bounds
\* physical replies (QNetworkReply objects) created in one run
MaxReplies == 3
\* replies created in a run of NetworkTimeouts alone
MaxTimed == 2
\* threads that use the disk cache
NumThreads == 2
\* largest redirect budget handed to RedirectFollower
MaxRedirects == 2
\* abort() calls counted per reply before the run is cut
MaxAborts == 2
\* AddReply calls on an already watched reply counted before the run is cut
MaxReAdds == 1

\* ------------------------------------------------- QNetworkRequest (Qt types)
\* QNetworkRequest::CacheLoadControl
AlwaysNetwork == 0
PreferNetwork == 1
PreferCache == 2
AlwaysCache == 3
\* an attribute the caller never set: attribute() returns an invalid QVariant
NoAttribute == -1
CacheLoadControls == {AlwaysNetwork, PreferNetwork, PreferCache, AlwaysCache}
CacheAttributes == CacheLoadControls \cup {NoAttribute}

\* QVariant::toInt(): an invalid QVariant converts to 0
toInt(v) == IF v = NoAttribute THEN 0 ELSE v

\* a header that is not set: header() returns an invalid QVariant
NoHeader == ""
FormUrlEncoded == "application/x-www-form-urlencoded"
ContentTypes == {NoHeader, FormUrlEncoded, "application/json"}
isValid(h) == h # NoHeader

\* "<applicationName> <applicationVersion>"
AppUserAgent == "Clementine 1.0"
UserAgents == {NoHeader, AppUserAgent, "curl"}

\* QNetworkAccessManager::Operation
GetOperation == "GetOperation"
PostOperation == "PostOperation"
Operations ==
  {"HeadOperation", GetOperation, "PutOperation", PostOperation,
   "DeleteOperation", "CustomOperation"}

Hosts == {"a", "b"}
Paths == {"/x", "/y"}
Urls == [host : Hosts, path : Paths]

Requests ==
  [url : Urls, user_agent : UserAgents, content_type : ContentTypes,
   cache_load : CacheAttributes]

\* ------------------------------------------- NetworkAccessManager::createRequest
\* the content-type default applied to every POST, set header or not
NeedsContentTypeAnyPost(op, new_request) == op = PostOperation

\* lines 94-95: the test that guards the content-type default
NeedsContentType(op, new_request) ==
  op = PostOperation /\ ~isValid(new_request.content_type)

\* lines 101-102: the test that guards the cache-policy rewrite
NeedsPreferCache(request) ==
  toInt(request.cache_load) = PreferNetwork

\* the request handed to QNetworkAccessManager::createRequest (line 107)
createRequest(op, request) ==
  LET r1 == [request EXCEPT !.user_agent = AppUserAgent]
      r2 == IF NeedsContentType(op, r1)
            THEN [r1 EXCEPT !.content_type = FormUrlEncoded]
            ELSE r1
      r3 == IF NeedsPreferCache(request)
            THEN [r2 EXCEPT !.cache_load = PreferCache]
            ELSE r2
  IN r3

\* --------------------------------------------------------------- QNetworkReply
NULL == 0

NoError == "NoError"
OperationCanceledError == "OperationCanceledError"
ContentNotFoundError == "ContentNotFoundError"

\* RedirectionTargetAttribute: absent, relative (no host) or absolute
NoTarget == [host |-> "", path |-> ""]
Targets == {[host |-> "", path |-> "/y"], [host |-> "b", path |-> "/x"]}
hasTarget(reply) == reply.target # NoTarget

\* QUrl::resolved: a relative target keeps the base's host
resolved(base, target) ==
  IF target.host = "" THEN [host |-> base.host, path |-> target.path]
  ELSE target

VARIABLES
  replies,              \* every QNetworkReply created so far, by id 1..Len
  deferred,             \* replies with a deleteLater() pending
  timers_,              \* NetworkTimeouts::timers_ : reply -> timer id
  active_timers,        \* the timer ids NetworkTimeouts has running
  tconn,                \* replies connected to NetworkTimeouts::ReplyFinished
  handled,              \* replies NetworkTimeouts::ReplyFinished has run for
  re_adds,              \* AddReply calls that found the reply already watched
  current_reply_,       \* RedirectFollower::current_reply_ (NULL: no follower)
  redirects_remaining_, \* RedirectFollower::redirects_remaining_
  max_redirects,        \* the budget the follower was constructed with
  chain,                \* the follower's replies, first to current
  fconn,                \* replies connected to RedirectFollower::ReplyFinished
  finished_emitted,     \* RedirectFollower::finished() emissions
  error_emitted,        \* RedirectFollower::error(code) emissions, in order
  caller                \* what the caller asks the manager for: op, request, body

net_vars == <<replies, deferred, timers_, active_timers, tconn, handled, re_adds>>
follower_vars ==
  <<current_reply_, redirects_remaining_, max_redirects, chain, fconn,
    finished_emitted>>
event_vars == <<net_vars, follower_vars, caller, error_emitted>>

Ids == 1..Len(replies)
\* the finished notification of r has not been delivered and r still exists
InFlight(r) == replies[r].finished = 0 /\ ~replies[r].destroyed

\* the reply QNetworkAccessManager::createRequest returns for new_request
NewReply(op, request, new_request, body) ==
  [op |-> op, orig |-> request, request |-> new_request, body |-> body,
   finished |-> 0, destroyed |-> FALSE, aborts |-> 0,
   target |-> NoTarget, error |-> NoError]

\* NetworkAccessManager::createRequest, called through get()/post()/...
Request(op, request, body) ==
  /\ Len(replies) < MaxReplies
  /\ replies' = Append(replies, NewReply(op, request, createRequest(op, request), body))
  /\ UNCHANGED <<deferred, timers_, active_timers, tconn, handled, re_adds, follower_vars,
                 caller, error_emitted>>

InitNet ==
  /\ replies = <<>>
  /\ deferred = {}
  /\ timers_ = <<>>
  /\ active_timers = {}
  /\ tconn = {}
  /\ handled = {}
  /\ re_adds = 0
  /\ current_reply_ = NULL
  /\ redirects_remaining_ = 0
  /\ max_redirects = 0
  /\ chain = <<>>
  /\ fconn = {}
  /\ finished_emitted = 0
  /\ error_emitted = <<>>

\* ------------------------------------------------------------- NetworkTimeouts
\* QObject::startTimer: an id no running timer of the object has
FreeTimerId == CHOOSE id \in 1..(Cardinality(active_timers) + 1) : id \notin active_timers

\* AddReply without its early return
AlreadyWatchedNever(reply) == FALSE

\* line 116: timers_.contains(reply)
AlreadyWatched(reply) == reply \in DOMAIN timers_

\* ReplyFinished that never finds the sender in timers_
HasTimerNever(reply) == FALSE

\* line 126: timers_.contains(reply)
HasTimer(reply) == reply \in DOMAIN timers_

\* line 132: timers_.key(timerId), NULL when no reply has that timer
key(timerId) ==
  IF \E r \in DOMAIN timers_ : timers_[r] = timerId
  THEN CHOOSE r \in DOMAIN timers_ : timers_[r] = timerId
  ELSE NULL

\* NetworkTimeouts::AddReply, called for a reply whose finished notification
\* is still to come
AddReply(reply) ==
  /\ reply \in Ids
  /\ InFlight(reply)
  /\ IF AlreadyWatched(reply)
     THEN /\ re_adds < MaxReAdds
          /\ re_adds' = re_adds + 1
          /\ UNCHANGED <<timers_, active_timers, tconn>>
     ELSE /\ re_adds' = re_adds
          /\ tconn' = tconn \cup {reply}
          /\ timers_' = [r \in DOMAIN timers_ \cup {reply} |->
                           IF r = reply THEN FreeTimerId ELSE timers_[r]]
          /\ active_timers' = active_timers \cup {FreeTimerId}
  /\ UNCHANGED <<replies, deferred, handled, follower_vars, caller, error_emitted>>

\* NetworkTimeouts::ReplyFinished with sender() = reply: the new timers_
TimersAfterReplyFinishedDropsOne(reply) ==
  IF HasTimer(reply) THEN [r \in DOMAIN timers_ \ {reply} |-> timers_[r]]
  ELSE IF DOMAIN timers_ = {} THEN timers_
  ELSE LET first == CHOOSE r \in DOMAIN timers_ : \A o \in DOMAIN timers_ : r <= o
       IN  [r \in DOMAIN timers_ \ {first} |-> timers_[r]]

TimersAfterReplyFinished(reply) ==
  IF HasTimer(reply)
  THEN [r \in DOMAIN timers_ \ {reply} |-> timers_[r]]
  ELSE timers_

\* NetworkTimeouts::ReplyFinished with sender() = reply: the timers left running
ActiveAfterReplyFinished(reply) ==
  IF HasTimer(reply) THEN active_timers \ {timers_[reply]} ELSE active_timers

\* the slot NetworkTimeouts::ReplyFinished, run when reply emits finished() or
\* destroyed() and AddReply connected it
NetworkTimeouts_ReplyFinished(reply) ==
  IF reply \in tconn
  THEN /\ timers_' = TimersAfterReplyFinished(reply)
       /\ active_timers' = ActiveAfterReplyFinished(reply)
       /\ handled' = handled \cup {reply}
  ELSE UNCHANGED <<timers_, active_timers, handled>>

\* timerEvent as a one-shot: it kills its timer and takes the entry out of
\* timers_ before it aborts the reply
timerEventKills(timerId) ==
  /\ timerId \in active_timers
  /\ LET reply == key(timerId) IN
       /\ reply # NULL
       /\ replies[reply].aborts < MaxAborts
       /\ replies' = [replies EXCEPT ![reply].aborts = @ + 1]
       /\ timers_' = [r \in DOMAIN timers_ \ {reply} |-> timers_[r]]
  /\ active_timers' = active_timers \ {timerId}
  /\ UNCHANGED <<deferred, tconn, handled, re_adds, follower_vars, caller, error_emitted>>

\* NetworkTimeouts::timerEvent: a running timer fires (a Qt timer is periodic,
\* it fires again every timeout_msec_ until killTimer); abort() is counted on
\* the reply, whose finished notification is delivered by EmitFinished
timerEvent(timerId) ==
  /\ timerId \in active_timers
  /\ LET reply == key(timerId) IN
       /\ reply # NULL
       /\ replies[reply].aborts < MaxAborts
       /\ replies' = [replies EXCEPT ![reply].aborts = @ + 1]
  /\ UNCHANGED <<deferred, timers_, active_timers, tconn, handled, re_adds, follower_vars,
                 caller, error_emitted>>

\* ------------------------------------------------------------ RedirectFollower
\* RedirectFollower::RedirectFollower(first_reply, max_redirects), with
\* ConnectReply(first_reply)
NewRedirectFollower(first_reply, budget) ==
  /\ current_reply_ = NULL
  /\ first_reply \in Ids
  /\ InFlight(first_reply)
  /\ first_reply \notin deferred
  /\ current_reply_' = first_reply
  /\ redirects_remaining_' = budget
  /\ max_redirects' = budget
  /\ chain' = <<first_reply>>
  /\ fconn' = fconn \cup {first_reply}
  /\ UNCHANGED <<net_vars, finished_emitted, caller, error_emitted>>

\* --redirects_remaining_ == 0: the value after the decrement is compared
BudgetExhaustedPre(remaining) == remaining - 1 = 0

\* redirects_remaining_-- < 0: a budget of 0 still allows a follow-up
BudgetExhaustedBelowZero(remaining) == remaining < 0

\* redirects_remaining_-- <= 0: a negative budget counts as used up
BudgetExhaustedAtOrBelow(remaining) == remaining <= 0

\* the test of line 158 left out: every redirect is followed
BudgetExhaustedNever(remaining) == FALSE

\* line 158: redirects_remaining_-- == 0 compares the value before the decrement
BudgetExhausted(remaining) == remaining = 0

\* lines 157-171: the handler issues a follow-up request
Follows(reply, remaining) == hasTarget(reply) /\ ~BudgetExhausted(remaining)

\* the return of line 171 left out: line 174 runs after a follow-up too
EmitsFinishedAlways(reply, remaining) == TRUE

\* line 174 left out: finished() is emitted only when the budget is used up
EmitsFinishedOnExhaustionOnly(reply, remaining) ==
  hasTarget(reply) /\ BudgetExhausted(remaining)

\* lines 159 and 174: the handler emits finished()
EmitsFinished(reply, remaining) == ~Follows(reply, remaining)

\* QNetworkRequest req(next_url): a fresh request instead of a copy
FollowUpRequestFresh(reply) ==
  [url |-> resolved(reply.request.url, reply.target), user_agent |-> NoHeader,
   content_type |-> NoHeader, cache_load |-> NoAttribute]

\* lines 163-167: the request of the follow-up
FollowUpRequest(reply) ==
  [reply.request EXCEPT !.url = resolved(reply.request.url, reply.target)]

\* line 169: manager()->get(req), which runs createRequest(GetOperation, req, 0)
FollowUpReply(reply) ==
  NewReply(GetOperation, FollowUpRequest(reply),
           createRequest(GetOperation, FollowUpRequest(reply)), FALSE)

\* the finished reply is never handed to deleteLater()
ScheduledForDisposalNever(reply) == {}

\* line 155: current_reply_->deleteLater() marks the reply for a later delete
ScheduledForDisposal(reply) == {reply}

\* delete current_reply_: the reply is destroyed while its handler runs
AfterDelete(rs) == [rs EXCEPT ![current_reply_].destroyed = TRUE]

\* line 155: deleteLater() leaves the reply alive for the rest of the handler
AfterDisposal(rs) == rs

\* the slot RedirectFollower::ReplyFinished; finished_rs is replies with the
\* finished reply's response filled in
RedirectFollower_ReplyFinished(finished_rs) ==
  LET rs == AfterDisposal(finished_rs)
      reply == rs[current_reply_] IN
    /\ deferred' = deferred \cup ScheduledForDisposal(current_reply_)
    /\ redirects_remaining_' =
         IF hasTarget(reply) THEN redirects_remaining_ - 1 ELSE redirects_remaining_
    /\ finished_emitted' =
         IF EmitsFinished(reply, redirects_remaining_)
         THEN finished_emitted + 1 ELSE finished_emitted
    /\ IF Follows(reply, redirects_remaining_)
       THEN /\ replies' = Append(rs, FollowUpReply(reply))
            /\ current_reply_' = Len(rs) + 1
            /\ chain' = Append(chain, Len(rs) + 1)
            /\ fconn' = fconn \cup {Len(rs) + 1}
       ELSE /\ replies' = rs
            /\ UNCHANGED <<current_reply_, chain, fconn>>
    /\ UNCHANGED max_redirects

\* ------------------------------------------------------- transport, event loop
\* the errors a reply can finish with: one NetworkTimeouts aborted reports the
\* cancellation, any other succeeds, fails or is aborted by somebody else
ErrorsOf(r) ==
  IF replies[r].aborts > 0 THEN {OperationCanceledError}
  ELSE {NoError, ContentNotFoundError, OperationCanceledError}

\* only the first reply's error() is connected to the follower's error()
ForwardsErrorFirstOnly(r) == r \in fconn /\ r = chain[1]

\* line 148: ConnectReply connects the reply's error() to the follower's error()
ForwardsError(r) == r \in fconn

\* reply r emits error(err) if it failed and then finished(), once: the slots
\* and signals connected to them run
EmitFinished(r, target, err) ==
  LET rs == [replies EXCEPT ![r].finished = 1, ![r].target = target,
                            ![r].error = err]
  IN /\ r \in Ids
     /\ InFlight(r)
     /\ NetworkTimeouts_ReplyFinished(r)
     /\ error_emitted' = IF err # NoError /\ ForwardsError(r)
                         THEN Append(error_emitted, err) ELSE error_emitted
     /\ UNCHANGED <<tconn, re_adds, caller>>
     /\ IF r \in fconn
        THEN /\ Follows(rs[r], redirects_remaining_) => Len(replies) < MaxReplies
             /\ RedirectFollower_ReplyFinished(rs)
        ELSE /\ replies' = rs
             /\ UNCHANGED <<deferred, follower_vars>>

\* the caller disposes of a reply it owns: reply->deleteLater()
CallerDeleteLater(r) ==
  /\ r \in Ids
  /\ r \notin fconn
  /\ r \notin deferred
  /\ ~replies[r].destroyed
  /\ deferred' = deferred \cup {r}
  /\ UNCHANGED <<replies, timers_, active_timers, tconn, handled, re_adds, follower_vars,
                 caller, error_emitted>>

\* a later turn of the event loop deletes r, which emits destroyed()
DeferredDelete(r) ==
  /\ r \in deferred
  /\ ~replies[r].destroyed
  /\ replies' = [replies EXCEPT ![r].destroyed = TRUE]
  /\ NetworkTimeouts_ReplyFinished(r)
  /\ UNCHANGED <<deferred, tconn, re_adds, follower_vars, caller, error_emitted>>

\* ------------------------------------------------ ThreadSafeNetworkDiskCache
Threads == 1..NumThreads
NoThread == 0

CacheUrls == {"http://a/b", "http://a/c"}
Metas == {"M", "M2"}
Bodies == {"B1", "B2"}
NoEntry == [meta |-> "", body |-> ""]
Entries == [meta : Metas, body : Bodies]
NoItem == [url |-> "", meta |-> ""]
Items == [url : CacheUrls, meta : Metas]
NoResult == "-"
Miss == "null"

\* the calls a thread makes on its ThreadSafeNetworkDiskCache
Calls ==
  [name : {"cacheSize", "clear"}, url : {""}, meta : {""}, body : {""}]
  \cup [name : {"data", "metaData", "remove"}, url : CacheUrls, meta : {""},
        body : {""}]
  \cup [name : {"prepare", "updateMetaData"}, url : CacheUrls, meta : Metas,
        body : {""}]
  \cup [name : {"insert"}, url : {""}, meta : {""}, body : Bodies]

VARIABLES
  sMutex,     \* ThreadSafeNetworkDiskCache::sMutex: the thread holding it
  sCache,     \* ThreadSafeNetworkDiskCache::sCache: NULL or the n-th store made
  created,    \* QNetworkDiskCache objects constructed so far
  dirs,       \* the stores setCacheDirectory has been called on
  store,      \* the contents of the QNetworkDiskCache
  pc,         \* where each thread is
  call,       \* the call each thread is in
  snap,       \* the store contents a thread inside the store started from
  result      \* what the store handed the thread, until it returns

cache_vars == <<sMutex, sCache, created, dirs, store, pc, call, snap, result>>
vars == <<event_vars, cache_vars>>

EmptyStore ==
  [entries |-> [u \in CacheUrls |-> NoEntry], inserting |-> [t \in Threads |-> NoItem]]
NoCall == [name |-> "", url |-> "", meta |-> "", body |-> ""]

InitCache ==
  /\ sMutex = NoThread
  /\ sCache = NULL
  /\ created = 0
  /\ dirs = {}
  /\ store = EmptyStore
  /\ pc = [t \in Threads |-> "idle"]
  /\ call = [t \in Threads |-> NoCall]
  /\ snap = [t \in Threads |-> EmptyStore]
  /\ result = [t \in Threads |-> NoResult]

\* QMutexLocker l(&sMutex) taken without waiting for the holder
CanLockAlways(t) == TRUE

\* QMutexLocker l(&sMutex): the constructor returns once the mutex is free
CanLock(t) == sMutex = NoThread

\* the pending inserts QNetworkDiskCache::remove(url) may cancel
Pending(st, url) == {d \in Threads : st.inserting[d].url = url}

\* what the QNetworkDiskCache holds after c, called by thread t on contents st;
\* pick is the pending insert remove() comes across first
Effect(c, t, st, pick) ==
  CASE c.name = "prepare" ->
         [st EXCEPT !.inserting[t] = [url |-> c.url, meta |-> c.meta]]
    [] c.name = "insert" ->
         IF st.inserting[t] = NoItem THEN st
         ELSE [st EXCEPT !.entries[st.inserting[t].url] =
                           [meta |-> st.inserting[t].meta, body |-> c.body],
                         !.inserting[t] = NoItem]
    [] c.name = "remove" ->
         IF pick # NoThread THEN [st EXCEPT !.inserting[pick] = NoItem]
         ELSE [st EXCEPT !.entries[c.url] = NoEntry]
    [] c.name = "updateMetaData" ->
         IF st.entries[c.url] = NoEntry THEN st
         ELSE [st EXCEPT !.entries[c.url].meta = c.meta]
    [] c.name = "clear" ->
         [st EXCEPT !.entries = [u \in CacheUrls |-> NoEntry]]
    [] OTHER -> st

\* what c returns to thread t on contents st
Result(c, t, st, pick) ==
  CASE c.name = "cacheSize" ->
         ToString(Cardinality({u \in CacheUrls : st.entries[u] # NoEntry}))
    [] c.name = "data" ->
         IF st.entries[c.url] = NoEntry THEN Miss ELSE st.entries[c.url].body
    [] c.name = "metaData" ->
         IF st.entries[c.url] = NoEntry THEN Miss ELSE st.entries[c.url].meta
    [] c.name = "prepare" -> "device"
    [] c.name = "remove" ->
         IF pick # NoThread \/ st.entries[c.url] # NoEntry THEN "true" ELSE "false"
    [] OTHER -> "void"

\* ThreadSafeNetworkDiskCache::ThreadSafeNetworkDiskCache, line 33
CtorLock(t) ==
  /\ pc[t] = "idle"
  /\ CanLock(t)
  /\ sMutex' = t
  /\ pc' = [pc EXCEPT ![t] = "ctor_check"]
  /\ UNCHANGED <<sCache, created, dirs, store, call, snap, result, event_vars>>

\* the constructor without its if (!sCache): every instance makes a store
SeesNoCacheAlways(t) == TRUE

\* line 34: !sCache
SeesNoCache(t) == sCache = NULL

\* line 34
CtorCheck(t) ==
  /\ pc[t] = "ctor_check"
  /\ pc' = [pc EXCEPT ![t] = IF SeesNoCache(t) THEN "ctor_new" ELSE "ctor_return"]
  /\ UNCHANGED <<sMutex, sCache, created, dirs, store, call, snap, result,
                 event_vars>>

\* line 35
CtorNew(t) ==
  /\ pc[t] = "ctor_new"
  /\ created' = created + 1
  /\ sCache' = created + 1
  /\ pc' = [pc EXCEPT ![t] = "ctor_setdir"]
  /\ UNCHANGED <<sMutex, dirs, store, call, snap, result, event_vars>>

\* line 36
CtorSetDir(t) ==
  /\ pc[t] = "ctor_setdir"
  /\ dirs' = dirs \cup {sCache}
  /\ pc' = [pc EXCEPT ![t] = "ctor_return"]
  /\ UNCHANGED <<sMutex, sCache, created, store, call, snap, result, event_vars>>

\* line 38: the locker's destructor releases the mutex
CtorReturn(t) ==
  /\ pc[t] = "ctor_return"
  /\ sMutex' = NoThread
  /\ pc' = [pc EXCEPT ![t] = "ready"]
  /\ UNCHANGED <<sCache, created, dirs, store, call, snap, result, event_vars>>

\* a thread calls c, one of cacheSize .. clear, on its instance: lines 41, 46,
\* 51, 56, 61, 66, 71, 76, QMutexLocker l(&sMutex), after which sCache->f(...)
\* starts on the contents it finds. The device of a thread is the one its last
\* prepare() returned; it asks for a new one only when the store holds none of
\* its own
Lock(t, c) ==
  /\ pc[t] = "ready"
  /\ c.name = "prepare" => store.inserting[t] = NoItem
  /\ CanLock(t)
  /\ sMutex' = t
  /\ call' = [call EXCEPT ![t] = c]
  /\ snap' = [snap EXCEPT ![t] = store]
  /\ pc' = [pc EXCEPT ![t] = "in_store"]
  /\ UNCHANGED <<sCache, created, dirs, store, result, event_vars>>

\* lines 42 .. 77: sCache->f(...) writes what it computed and returns
StoreEnd(t, pick) ==
  /\ pc[t] = "in_store"
  /\ IF call[t].name = "remove" /\ Pending(snap[t], call[t].url) # {}
     THEN pick \in Pending(snap[t], call[t].url)
     ELSE pick = NoThread
  /\ store' = Effect(call[t], t, snap[t], pick)
  /\ result' = [result EXCEPT ![t] = Result(call[t], t, snap[t], pick)]
  /\ snap' = [snap EXCEPT ![t] = EmptyStore]
  /\ pc' = [pc EXCEPT ![t] = "returning"]
  /\ UNCHANGED <<sMutex, sCache, created, dirs, call, event_vars>>

\* the locker's destructor releases the mutex and the call returns
Unlock(t) ==
  /\ pc[t] = "returning"
  /\ sMutex' = NoThread
  /\ result' = [result EXCEPT ![t] = NoResult]
  /\ call' = [call EXCEPT ![t] = NoCall]
  /\ pc' = [pc EXCEPT ![t] = "ready"]
  /\ UNCHANGED <<sCache, created, dirs, store, snap, event_vars>>

\* ------------------------------------------------------------- specifications
Budgets == (0 - 1)..MaxRedirects
BodiesOf(op) == IF op \in {GetOperation, "HeadOperation", "DeleteOperation"}
                THEN {FALSE} ELSE BOOLEAN
Callers ==
  {c \in [op : Operations, request : Requests, body : BOOLEAN] :
     c.body \in BodiesOf(c.op)}

\* the redirect targets of the replies a follower reads; the target of a reply
\* no follower is connected to is read by nobody and stays NoTarget
TargetsOf(r) == IF r \in fconn THEN Targets \cup {NoTarget} ELSE {NoTarget}

CallRequest ==
  Request(caller.op, caller.request, caller.body) /\ UNCHANGED cache_vars
CallAddReply ==
  (\E r \in Ids : AddReply(r)) /\ UNCHANGED cache_vars
TimerFires ==
  (\E id \in active_timers : timerEvent(id)) /\ UNCHANGED cache_vars
ReplyFinishes ==
  \E r \in Ids : \E target \in TargetsOf(r), err \in ErrorsOf(r) :
    EmitFinished(r, target, err) /\ UNCHANGED cache_vars
CallNewRedirectFollower ==
  \E r \in Ids, budget \in Budgets : NewRedirectFollower(r, budget) /\ UNCHANGED cache_vars
CallDeleteLater ==
  (\E r \in Ids : CallerDeleteLater(r)) /\ UNCHANGED cache_vars
EventLoopDeletes ==
  (\E r \in deferred : DeferredDelete(r)) /\ UNCHANGED cache_vars

\* RedirectFollower: the caller issues one request and wraps its reply in a
\* follower; every other reply is a follow-up of the chain
ChainCallers ==
  {c \in Callers :
     /\ c.request.url = [host |-> "a", path |-> "/x"]
     /\ c.request.user_agent = NoHeader
     /\ c.request.content_type \in {NoHeader, "application/json"}
     /\ c.request.cache_load \in {NoAttribute, PreferNetwork}}

Init ==
  /\ InitNet
  /\ InitCache
  /\ caller \in ChainCallers

FirstRequest == replies = <<>> /\ CallRequest

Next ==
  \/ FirstRequest
  \/ CallNewRedirectFollower
  \/ ReplyFinishes
  \/ EventLoopDeletes

Spec == Init /\ [][Next]_vars

\* NetworkTimeouts: the caller issues plain GET requests and registers them
PlainGet ==
  [op |-> GetOperation, body |-> FALSE,
   request |-> [url |-> [host |-> "a", path |-> "/x"], user_agent |-> NoHeader,
                content_type |-> NoHeader, cache_load |-> NoAttribute]]

InitTimeouts ==
  /\ InitNet
  /\ InitCache
  /\ caller = PlainGet

TimedRequest == Len(replies) < MaxTimed /\ CallRequest

NextTimeouts ==
  \/ TimedRequest
  \/ CallAddReply
  \/ TimerFires
  \/ ReplyFinishes
  \/ CallDeleteLater
  \/ EventLoopDeletes

SpecTimeouts == InitTimeouts /\ [][NextTimeouts]_vars

\* RedirectFollower on a transport that delivers finished() for every reply
\* it has in flight: the chain of Spec for one plain GET, with weak fairness
\* on the delivery
InitLive ==
  /\ InitNet
  /\ InitCache
  /\ caller = PlainGet

SpecLive == InitLive /\ [][Next]_vars /\ WF_vars(ReplyFinishes)

\* RedirectFollower and NetworkTimeouts together: the replies of a chain are
\* also registered for a timeout
InitAbort ==
  /\ InitNet
  /\ InitCache
  /\ caller = PlainGet

\* the follower is given a budget of no or one redirect
AbortBudgets == 0..1
NewAbortFollower ==
  \E r \in Ids, budget \in AbortBudgets :
    NewRedirectFollower(r, budget) /\ UNCHANGED cache_vars

NextAbort ==
  \/ FirstRequest
  \/ NewAbortFollower
  \/ CallAddReply
  \/ TimerFires
  \/ ReplyFinishes
  \/ EventLoopDeletes

SpecAbort == InitAbort /\ [][NextAbort]_vars

\* NetworkAccessManager::createRequest on every operation and request
InitRequest ==
  /\ InitNet
  /\ InitCache
  /\ caller \in Callers

NextRequest == FirstRequest

SpecRequest == InitRequest /\ [][NextRequest]_vars

\* ThreadSafeNetworkDiskCache: every thread constructs an instance and calls it
InitCacheThreads ==
  /\ InitNet
  /\ InitCache
  /\ caller = PlainGet

NextCache ==
  \/ \E t \in Threads : CtorLock(t)
  \/ \E t \in Threads : CtorCheck(t)
  \/ \E t \in Threads : CtorNew(t)
  \/ \E t \in Threads : CtorSetDir(t)
  \/ \E t \in Threads : CtorReturn(t)
  \/ \E t \in Threads, c \in Calls : Lock(t, c)
  \/ \E t \in Threads, pick \in Threads \cup {NoThread} : StoreEnd(t, pick)
  \/ \E t \in Threads : Unlock(t)

SpecCache == InitCacheThreads /\ [][NextCache]_vars

\* ===================================================================== claims
Finished(r) == replies[r].finished = 1
FollowerExists == current_reply_ # NULL
Last(c) == c[Len(c)]
Min(a, b) == IF a < b THEN a ELSE b
\* every response the chain has received so far is a redirect
AllRedirects ==
  \A i \in 1..Len(chain) : Finished(chain[i]) => hasTarget(replies[chain[i]])
NumFinished == Cardinality({i \in 1..Len(chain) : Finished(chain[i])})

\* C1: with a budget N >= 0 and nothing but redirect responses, the follower
\* has sent min(responses + 1, N + 1) requests, so N + 1 in total, and it has
\* emitted finished() once exactly when the (N+1)-th redirect has arrived.
C1_BudgetHops ==
  (FollowerExists /\ max_redirects >= 0 /\ AllRedirects) =>
    /\ Len(chain) = Min(NumFinished + 1, max_redirects + 1)
    /\ finished_emitted = IF NumFinished = max_redirects + 1 THEN 1 ELSE 0

C1_Witness ==
  /\ FollowerExists /\ max_redirects >= 1 /\ AllRedirects
  /\ NumFinished = max_redirects + 1
  /\ Len(chain) = max_redirects + 1
  /\ finished_emitted = 1

\* C2: with a budget of 0 the original request is the only one there ever is,
\* redirect response or not, and finished() is emitted when its reply finishes.
C2_ZeroBudget ==
  (FollowerExists /\ max_redirects = 0) =>
    /\ Len(replies) = 1
    /\ chain = <<1>>
    /\ finished_emitted = IF Finished(1) THEN 1 ELSE 0

C2_Witness ==
  /\ FollowerExists /\ max_redirects = 0
  /\ Finished(1) /\ hasTarget(replies[1])
  /\ Len(replies) = 1 /\ finished_emitted = 1

\* C3: the follower emits finished() at most once, and only in a step that
\* issues no new request; a hop that is followed emits none.
C3_FinishedOnce ==
  [][finished_emitted' # finished_emitted =>
       /\ finished_emitted = 0
       /\ finished_emitted' = 1
       /\ Len(replies') = Len(replies)]_vars

C3_Witness ==
  /\ finished_emitted = 1
  /\ Len(chain) >= 2
  /\ replies[chain[1]].error # NoError
  /\ Finished(Last(chain))

\* C9 as stated: every follow-up copies the request of the operation that just
\* finished with only the URL replaced, and keeps the operation kind and the
\* body of the original request.
C9_FollowUpKeepsMethod ==
  \A i \in 2..Len(chain) :
    LET prev == replies[chain[i - 1]]
        cur == replies[chain[i]]
    IN /\ cur.request = [prev.request EXCEPT
                           !.url = resolved(prev.request.url, prev.target)]
       /\ cur.op = replies[chain[1]].op
       /\ cur.body = replies[chain[1]].body

\* C9 amended: every follow-up is handed to the transport with a copy of the
\* finished operation's request in which only the URL is replaced by the
\* resolved target, and it is a GET without a body whatever the original was.
C9_FollowUpIsGetCopy ==
  \A i \in 2..Len(chain) :
    LET prev == replies[chain[i - 1]]
        cur == replies[chain[i]]
    IN /\ cur.request = [prev.request EXCEPT
                           !.url = resolved(prev.request.url, prev.target)]
       /\ cur.op = GetOperation
       /\ cur.body = FALSE

C9_Witness ==
  /\ Len(chain) >= 3
  /\ replies[chain[1]].op = PostOperation
  /\ replies[chain[1]].body
  /\ replies[chain[1]].orig.content_type = "application/json"
  /\ replies[chain[3]].request.url.host = "b"

\* C7 as stated: a request whose cache-load-control attribute was never set is
\* handed on as prefer-cache, and one set to prefer-network stays so.
C7_DefaultPrefersCache ==
  \A r \in Ids :
    /\ replies[r].orig.cache_load = NoAttribute =>
         replies[r].request.cache_load = PreferCache
    /\ replies[r].orig.cache_load = PreferNetwork =>
         replies[r].request.cache_load = PreferNetwork

\* C8: a POST without content-type gets the form-url-encoded one, a POST with
\* a content-type keeps it, and no other operation gains a content-type.
C8_ContentTypeDefault ==
  \A r \in Ids :
    LET before == replies[r].orig.content_type
        after == replies[r].request.content_type
    IN IF replies[r].op = PostOperation
       THEN after = IF before = NoHeader THEN FormUrlEncoded ELSE before
       ELSE after = before

C8_Witness ==
  \E r \in Ids :
    /\ replies[r].op = PostOperation
    /\ replies[r].orig.content_type = NoHeader
    /\ replies[r].request.content_type = FormUrlEncoded

\* C4 as stated: a watched operation whose timer fires gets one abort() call
\* and one finished notification, however late that notification comes.
C4_OneAbort ==
  \A r \in Ids : replies[r].aborts <= 1 /\ replies[r].finished <= 1

\* C5: once NetworkTimeouts::ReplyFinished has run for an operation, no
\* timerEvent calls abort() on it.
C5_NoAbortAfterFinished ==
  [][\A r \in handled : replies'[r].aborts = replies[r].aborts]_vars

C5_Witness ==
  \E r \in handled, other \in Ids :
    /\ Finished(r) /\ replies[r].aborts = 0
    /\ replies[other].aborts > 0

\* C10: every watched operation has one running timer of its own, no timer
\* runs that timers_ does not record, and AddReply for a watched operation
\* changes neither.
C10_OneTimerEach ==
  /\ [](/\ active_timers = {timers_[r] : r \in DOMAIN timers_}
        /\ Cardinality(active_timers) = Cardinality(DOMAIN timers_))
  /\ [][re_adds' # re_adds => UNCHANGED <<timers_, active_timers>>]_vars

C10_Witness ==
  /\ re_adds > 0
  /\ Cardinality(DOMAIN timers_) >= 2
  /\ Cardinality(active_timers) = Cardinality(DOMAIN timers_)

\* the places of a thread at which it holds sMutex
Holding == {"ctor_check", "ctor_new", "ctor_setdir", "ctor_return", "in_store",
            "returning"}

\* C6: a thread inside a constructor or a delegated call holds the one mutex,
\* so at most one thread is inside the store, and the store a call works on
\* is the store as it is: the calls take effect one after another.
C6_Serialized ==
  /\ \A t \in Threads : pc[t] \in Holding => sMutex = t
  /\ \A t \in Threads : pc[t] = "in_store" => snap[t] = store

C6_Witness ==
  \E t, u \in Threads :
    /\ t # u
    /\ pc[t] = "returning" /\ call[t].name = "data" /\ result[t] \in Bodies
    /\ pc[u] = "ready" /\ store.inserting[u] # NoItem

\* the places of a thread that has an instance: a constructor has returned
Constructed == {"ready", "in_store", "returning"}

\* C11: whatever the interleaving of the constructors, one store is made and
\* its directory set once, sCache is never replaced or reset once it is set,
\* and a thread that has an instance finds sCache set, directory included.
C11_OneStore ==
  /\ [](/\ created <= 1
        /\ sCache \in {NULL, 1}
        /\ dirs \subseteq {1}
        /\ \A t \in Threads :
             pc[t] \in Constructed => sCache # NULL /\ sCache \in dirs)
  /\ [][/\ sCache # NULL => sCache' = sCache
        /\ dirs # {} => dirs' = dirs]_vars

C11_Witness ==
  /\ \A t \in Threads : pc[t] \in Constructed
  /\ \E t \in Threads : pc[t] = "in_store"
  /\ created = 1 /\ sCache = 1 /\ dirs = {1}

\* C12: data(url) and metaData(url) return the body and the metadata of the
\* entry a completed prepare + insert stored, and a miss for a url without an
\* entry; prepare alone makes nothing visible, insert stores metadata and
\* body of the entry in one step, so no reader sees a partial entry.
C12_RoundTrip ==
  /\ [](\A t \in Threads :
          /\ \A u \in CacheUrls : store.entries[u] \in Entries \cup {NoEntry}
          /\ pc[t] = "returning" /\ call[t].name = "data" =>
               result[t] = IF store.entries[call[t].url] = NoEntry THEN Miss
                           ELSE store.entries[call[t].url].body
          /\ pc[t] = "returning" /\ call[t].name = "metaData" =>
               result[t] = IF store.entries[call[t].url] = NoEntry THEN Miss
                           ELSE store.entries[call[t].url].meta)
  /\ [][\A t \in Threads :
          pc[t] = "in_store" /\ pc'[t] = "returning" =>
            /\ call[t].name = "prepare" => store'.entries = store.entries
            /\ call[t].name = "insert" /\ store.inserting[t] # NoItem =>
                 store'.entries =
                   [store.entries EXCEPT
                      ![store.inserting[t].url] =
                         [meta |-> store.inserting[t].meta, body |-> call[t].body]]]_vars

C12_Witness ==
  \E t, u \in Threads :
    /\ t # u
    /\ store.entries["http://a/b"] = [meta |-> "M", body |-> "B1"]
    /\ store.entries["http://a/c"] = NoEntry
    /\ store.inserting[u] = [url |-> "http://a/c", meta |-> "M2"]
    /\ pc[t] = "returning" /\ call[t].name = "data"
    /\ call[t].url = "http://a/c" /\ result[t] = Miss

\* the replies whose abort() is called in the step
AbortedInStep == {r \in DOMAIN replies : replies'[r].aborts # replies[r].aborts}

\* the replies that emit finished() or destroyed() in the step
NotifiedInStep ==
  {r \in DOMAIN replies : \/ replies'[r].finished # replies[r].finished
                          \/ replies'[r].destroyed # replies[r].destroyed}

\* C14: a firing timer aborts the one reply it was started for and leaves
\* timers_ and the running timers as they are; an entry leaves timers_ only
\* in the step where its own reply emits finished() or destroyed() and
\* ReplyFinished handles it, and the other entries stay.
C14_AbortKeepsEntry ==
  /\ [][AbortedInStep # {} =>
          /\ \E r \in DOMAIN timers_ :
               /\ AbortedInStep = {r}
               /\ timers_[r] \in active_timers
               /\ replies'[r].aborts = replies[r].aborts + 1
          /\ timers_' = timers_
          /\ active_timers' = active_timers]_vars
  /\ [][\A r \in DOMAIN timers_ :
          r \notin DOMAIN timers_' =>
            /\ NotifiedInStep = {r}
            /\ AbortedInStep = {}
            /\ r \in handled' \ handled
            /\ active_timers' = active_timers \ {timers_[r]}
            /\ \A o \in DOMAIN timers_ \ {r} :
                 o \in DOMAIN timers_' /\ timers_'[o] = timers_[o]]_vars

C14_Witness ==
  \E r, o \in DOMAIN timers_ :
    /\ r # o
    /\ replies[r].aborts = 1 /\ timers_[r] \in active_timers
    /\ replies[o].aborts = 0 /\ timers_[o] \in active_timers

\* C15: when a reply without an entry in timers_ emits finished() or
\* destroyed() (destroyed() after its finished() was handled, or a reply that
\* was never added), no timer is killed and timers_ stays as it is.
C15_NoEntryNoOp ==
  [][\A r \in NotifiedInStep :
       r \notin DOMAIN timers_ =>
         timers_' = timers_ /\ active_timers' = active_timers]_vars

C15_Witness ==
  \E r \in handled, o \in DOMAIN timers_ :
    /\ r \in tconn
    /\ replies[r].finished = 1 /\ replies[r].destroyed
    /\ timers_[o] \in active_timers

\* the error codes of the chain's replies that finished with an error, in
\* the order of the chain
RECURSIVE ChainErrors(_)
ChainErrors(n) ==
  IF n = 0 THEN <<>>
  ELSE LET r == replies[chain[n]] IN
       IF r.finished = 1 /\ r.error # NoError
       THEN Append(ChainErrors(n - 1), r.error) ELSE ChainErrors(n - 1)

\* C13: the follower's error(code) emissions are the error codes of its
\* replies, hop by hop, with the same code; a reply NetworkTimeouts aborted
\* reports the cancellation, and the follower emitted that too.
C13_ErrorsForwarded ==
  /\ error_emitted = ChainErrors(Len(chain))
  /\ \A i \in 1..Len(chain) :
       replies[chain[i]].finished = 1 /\ replies[chain[i]].aborts > 0 =>
         /\ replies[chain[i]].error = OperationCanceledError
         /\ \E j \in 1..Len(error_emitted) : error_emitted[j] = OperationCanceledError

C13_Witness ==
  /\ Len(chain) >= 2
  /\ replies[chain[1]].error = ContentNotFoundError
  /\ replies[chain[2]].finished = 1
  /\ replies[chain[2]].aborts > 0
  /\ error_emitted = <<ContentNotFoundError, OperationCanceledError>>

\* the chain's replies whose finished notification is pending
LiveInChain == {i \in 1..Len(chain) : InFlight(chain[i])}
\* the redirect responses the chain has received
NumRedirects ==
  Cardinality({i \in 1..Len(chain) : Finished(chain[i]) /\ hasTarget(replies[chain[i]])})

\* C16: redirects_remaining_ never goes up; until the follower has emitted
\* finished() its current_reply_ is the one reply of the chain that is still
\* in flight, not finished and not handed to deleteLater(); every earlier
\* reply of the chain has finished and is scheduled for disposal.
C16_OneLiveReply ==
  /\ [](FollowerExists =>
          /\ \A i \in 1..(Len(chain) - 1) :
               Finished(chain[i]) /\ chain[i] \in deferred
          /\ finished_emitted = 0 =>
               /\ current_reply_ = Last(chain)
               /\ InFlight(current_reply_)
               /\ current_reply_ \notin deferred
               /\ LiveInChain = {Len(chain)})
  /\ [][FollowerExists => redirects_remaining_' <= redirects_remaining_]_vars

C16_Witness ==
  /\ FollowerExists /\ max_redirects = 1 /\ finished_emitted = 0
  /\ Len(chain) = 2
  /\ redirects_remaining_ = 0
  /\ chain[1] \in deferred
  /\ InFlight(chain[2])

\* C17: when the response that is not a redirect arrives after k redirects,
\* the follower has sent k + 1 requests, k within the budget, it has emitted
\* finished() once and its current reply is the (k+1)-th.
C17_WithinBudget ==
  (FollowerExists /\ Finished(Last(chain)) /\ ~hasTarget(replies[Last(chain)])) =>
    /\ finished_emitted = 1
    /\ current_reply_ = Last(chain)
    /\ Len(chain) = NumRedirects + 1
    /\ Len(replies) = NumRedirects + 1
    /\ max_redirects >= 0 => NumRedirects <= max_redirects

C17_Witness ==
  /\ FollowerExists /\ max_redirects = 2
  /\ Len(replies) = 3 /\ NumRedirects = 2
  /\ Finished(3) /\ ~hasTarget(replies[3]) /\ replies[3].error = NoError
  /\ current_reply_ = 3
  /\ finished_emitted = 1

\* C18: the reply whose finished() the follower handles is its current reply;
\* the handler only schedules it for disposal, once, and it is alive before
\* and after the handler; a reply is destroyed in a later step, after it has
\* finished and been scheduled, and never the one the follower still follows.
C18_DeferredDisposal ==
  /\ [][\A r \in fconn :
          replies[r].finished = 0 /\ replies'[r].finished = 1 =>
            /\ r = current_reply_
            /\ ~replies[r].destroyed /\ ~replies'[r].destroyed
            /\ r \notin deferred /\ r \in deferred']_vars
  /\ [][\A r \in DOMAIN replies :
          ~replies[r].destroyed /\ replies'[r].destroyed =>
            /\ r \in deferred
            /\ Finished(r)
            /\ finished_emitted = 0 => r # current_reply_]_vars
  /\ [](FollowerExists /\ finished_emitted = 0 => ~replies[current_reply_].destroyed)

C18_Witness ==
  /\ Len(chain) = 3
  /\ replies[chain[1]].destroyed
  /\ chain[2] \in deferred /\ ~replies[chain[2]].destroyed
  /\ InFlight(chain[3])

\* C19: with a budget N >= 0 the follower never sends more than N follow-up
\* requests, and on a transport that delivers finished() for every reply it
\* emits finished() in the end, redirect responses only or not.
C19_Terminates ==
  /\ [](FollowerExists /\ max_redirects >= 0 => Len(chain) <= max_redirects + 1)
  /\ (FollowerExists /\ max_redirects >= 0) ~> (finished_emitted = 1)

C19_Witness ==
  /\ FollowerExists /\ max_redirects = 2
  /\ AllRedirects /\ NumFinished = 3
  /\ redirects_remaining_ = 0 - 1
  /\ finished_emitted = 1

\* C20: with a negative budget redirects_remaining_ stays negative, so the
\* test of line 158 never holds: every redirect response is followed by a
\* request and a chain of redirects only never emits finished().
C20_NegativeBudget ==
  (FollowerExists /\ max_redirects < 0) =>
    /\ redirects_remaining_ < 0
    /\ redirects_remaining_ = max_redirects - NumRedirects
    /\ AllRedirects => finished_emitted = 0 /\ Len(chain) = NumFinished + 1

C20_Witness ==
  /\ FollowerExists /\ max_redirects < 0
  /\ AllRedirects /\ NumFinished = 2
  /\ Len(chain) = 3
  /\ finished_emitted = 0

====
